---- MODULE Spec2Model ----
(***************************************************************************)
(* A model of s2awsdl/downloader.py: the S2AWSDownloader object with its   *)
(* two public operations, search_s2l2a and download_images, the S3 object  *)
(* keys and /vsis3 paths they build, and the local output tree.            *)
(*                                                                         *)
(* Text is modelled as a sequence of atoms.  Text that the code slices,    *)
(* folds or formats (tile ids, processing levels, numbers) is a sequence   *)
(* of single characters; a literal fragment of an f-string is one atom,    *)
(* except that every "/" is an atom of its own.                            *)
(***************************************************************************)
EXTENDS Integers, Sequences, FiniteSets, TLC

VARIABLES
    processing_level,   \* self.processing_level
    files,              \* raster files present in the output tree
    dirs,               \* directories present in the output tree
    last,               \* the most recent call: arguments, environment, effects
    searched,           \* history: was the latest search given a valid level
    repeated,           \* history: the latest call repeats the one before it
    calls,              \* number of calls made on the downloader
    probe               \* inputs of the call or resolution under examination

vars == <<processing_level, files, dirs, last, searched, repeated, calls, probe>>

-----------------------------------------------------------------------------
(* Bounds of the model *)

\* number of calls made on one downloader
MaxCalls == 3
\* the search window spans the days Base .. Base + MaxSpan
MaxSpan == 2

-----------------------------------------------------------------------------
(* Python values *)

None == <<"<None>">>

Min(a, b) == IF a <= b THEN a ELSE b

Max(a, b) == IF a >= b THEN a ELSE b

\* s[i:j] of Python, 0-based, clipped to the text
Slice(s, i, j) == SubSeq(s, Min(i, Len(s)) + 1, Min(j, Len(s)))

\* s[i:] of Python
SliceFrom(s, i) == SubSeq(s, Min(i, Len(s)) + 1, Len(s))

startswith(s, c) == Len(s) >= 1 /\ s[1] = c

LowerChars == <<"a","b","c","d","e","f","g","h","i","j","k","l","m",
                "n","o","p","q","r","s","t","u","v","w","x","y","z">>

UpperChars == <<"A","B","C","D","E","F","G","H","I","J","K","L","M",
                "N","O","P","Q","R","S","T","U","V","W","X","Y","Z">>

\* the character c with its case folded from the alphabet `from` to `to`
FoldChar(c, from, to) ==
    IF \E k \in 1..Len(from) : from[k] = c
    THEN to[CHOOSE k \in 1..Len(from) : from[k] = c]
    ELSE c

RECURSIVE lower(_)
\* str.lower()
lower(s) ==
    IF s = <<>> THEN <<>>
    ELSE <<FoldChar(Head(s), UpperChars, LowerChars)>> \o lower(Tail(s))

RECURSIVE upper(_)
\* str.upper()
upper(s) ==
    IF s = <<>> THEN <<>>
    ELSE <<FoldChar(Head(s), LowerChars, UpperChars)>> \o upper(Tail(s))

Digits == <<"0","1","2","3","4","5","6","7","8","9">>

RECURSIVE FormatInt(_)
\* f"{n}" for an int n >= 0: decimal, no padding
FormatInt(n) ==
    IF n < 10 THEN <<Digits[n + 1]>>
    ELSE FormatInt(n \div 10) \o <<Digits[(n % 10) + 1]>>

RECURSIVE ZeroPad(_, _)
ZeroPad(s, width) == IF Len(s) >= width THEN s ELSE ZeroPad(<<"0">> \o s, width)

\* dict[key] = value
DictSet(d, k, v) == [x \in (DOMAIN d) \cup {k} |-> IF x = k THEN v ELSE d[x]]

EmptyDict == <<>>

-----------------------------------------------------------------------------
(* datetime.datetime and datetime.timedelta, to the hour *)

IsLeap(y) == (y % 4 = 0) /\ ((y % 100 # 0) \/ (y % 400 = 0))

DaysInMonth(y, m) ==
    IF m = 2 THEN (IF IsLeap(y) THEN 29 ELSE 28)
    ELSE IF m \in {4, 6, 9, 11} THEN 30 ELSE 31

DaysBeforeYear(y) ==
    (y - 1) * 365 + ((y - 1) \div 4) - ((y - 1) \div 100) + ((y - 1) \div 400)

RECURSIVE DaysBeforeMonth(_, _)
DaysBeforeMonth(y, m) ==
    IF m = 1 THEN 0 ELSE DaysBeforeMonth(y, m - 1) + DaysInMonth(y, m - 1)

\* datetime.toordinal()
ToOrdinal(dt) == DaysBeforeYear(dt.year) + DaysBeforeMonth(dt.year, dt.month) + dt.day

NextDay(dt) ==
    IF dt.day < DaysInMonth(dt.year, dt.month)
    THEN [dt EXCEPT !.day = dt.day + 1]
    ELSE IF dt.month < 12
         THEN [dt EXCEPT !.month = dt.month + 1, !.day = 1]
         ELSE [dt EXCEPT !.year = dt.year + 1, !.month = 1, !.day = 1]

RECURSIVE AddDays(_, _)
\* dt + datetime.timedelta(days=n), n >= 0: the time of day is kept
AddDays(dt, n) == IF n = 0 THEN dt ELSE AddDays(NextDay(dt), n - 1)

\* (b - a).days: a timedelta is normalised so that 0 <= seconds < 86400,
\* hence days is the floor of the difference in days
TimedeltaDays(b, a) ==
    LET hours == (ToOrdinal(b) - ToOrdinal(a)) * 24 + (b.hour - a.hour)
    IN  IF hours >= 0 THEN hours \div 24 ELSE -(((-hours) + 23) \div 24)

\* a <= b on datetimes
DatetimeLeq(a, b) ==
    \/ ToOrdinal(a) < ToOrdinal(b)
    \/ ToOrdinal(a) = ToOrdinal(b) /\ a.hour <= b.hour

\* strftime("%Y%m%d")
strftime_Ymd(dt) ==
    ZeroPad(FormatInt(dt.year), 4) \o ZeroPad(FormatInt(dt.month), 2)
        \o ZeroPad(FormatInt(dt.day), 2)

-----------------------------------------------------------------------------
(* Module constants of downloader.py *)

S2_BANDS == <<"B01", "B02", "B03", "B04", "B05", "B06", "B07",
              "B08", "B8A", "B09", "B10", "B11", "B12", "TCI">>

\* a dict keeps its insertion order: 10, 20, 60
BAND_RES == <<[key |-> 10, bands |-> <<"B02", "B03", "B04", "B08", "TCI">>],
              [key |-> 20, bands |-> <<"B05", "B06", "B07", "B8A", "B11", "B12">>],
              [key |-> 60, bands |-> <<"B01", "B09", "B10">>]>>

l1c == <<"l", "1", "c">>

l2a == <<"l", "2", "a">>

S3_PREFIX == (l1c :> <<"sentinel-s2-l1c", "/", "tiles">>)
          @@ (l2a :> <<"sentinel-s2-l2a", "/", "tiles">>)

S3_BUCKETS == (l1c :> "sentinel-s2-l1c") @@ (l2a :> "sentinel-s2-l2a")

XML_HEADERS == (l1c :> "n1:Level-1C_Tile_ID") @@ (l2a :> "n1:Level-2A_Tile_ID")

-----------------------------------------------------------------------------
(* Tile ids, object keys and /vsis3 paths *)

\* "De-construct tile id" of search_s2l2a: the T-stripped id and its parts
SearchTileIds(tile) ==
    LET t == IF startswith(tile, "T") THEN SliceFrom(tile, 1) ELSE tile
    IN  [tile |-> t,
         tileid1 |-> Slice(t, 0, 2),
         tileid2 |-> Slice(t, 2, 3),
         tileid3 |-> SliceFrom(t, 3)]

\* "De-construct tile id" of download_images
DownloadTileIds(tile) ==
    LET t == IF startswith(tile, "T") THEN SliceFrom(tile, 1) ELSE tile
    IN  [tile |-> t,
         tileid1 |-> Slice(t, 0, 2),
         tileid2 |-> Slice(t, 2, 3),
         tileid3 |-> SliceFrom(t, 3)]

\* {year}, {mon} or {day} in an f-string: an int with no format spec
DatePartPadded(n) == ZeroPad(FormatInt(n), 2)

DatePart(n) == FormatInt(n)

\* {tileid1}/{tileid2}/{tileid3}/{year}/{month}/{day}/0/ of the three f-strings
TileDayPath(ids, year, month, day) ==
    ids.tileid1 \o <<"/">> \o ids.tileid2 \o <<"/">> \o ids.tileid3 \o <<"/">>
        \o DatePart(year) \o <<"/">> \o DatePart(month) \o <<"/">>
        \o DatePart(day) \o <<"/", "0", "/">>

\* obj_key of search_s2l2a
MetadataKey(tile, search_date) ==
    <<"tiles", "/">>
        \o TileDayPath(SearchTileIds(tile), search_date.year, search_date.month,
                       search_date.day)
        \o <<"metadata.xml">>

\* im_s3_uri of the cloud mask
CloudUri(level, tile, dates) ==
    <<"/", "vsis3", "/">> \o S3_PREFIX[level] \o <<"/">>
        \o TileDayPath(DownloadTileIds(tile), dates.year, dates.month, dates.day)
        \o <<"qi", "/", "CLD_20m.jp2">>

\* [key for key in BAND_RES if band in BAND_RES[key]]
BandGroups(band) ==
    LET hits == SelectSeq(BAND_RES, LAMBDA g : \E i \in 1..Len(g.bands) : g.bands[i] = band)
    IN  [i \in 1..Len(hits) |-> hits[i].key]

\* "if resolution:" on an Optional[int]: <<>> is None, <<n>> is the int n
Truthy(resolution) == Len(resolution) = 1 /\ resolution[1] # 0

\* band_res of download_images; the band is known to BAND_RES
BandResMin(band, resolution) ==
    IF Truthy(resolution)
    THEN Min(resolution[1], BandGroups(band)[1])
    ELSE BandGroups(band)[1]

BandRes(band, resolution) ==
    IF Truthy(resolution)
    THEN Max(resolution[1], BandGroups(band)[1])
    ELSE BandGroups(band)[1]

\* im_s3_uri of a band
BandUri(level, tile, dates, band, band_res) ==
    IF level = l2a
    THEN <<"/", "vsis3", "/">> \o S3_PREFIX[level] \o <<"/">>
            \o TileDayPath(DownloadTileIds(tile), dates.year, dates.month, dates.day)
            \o <<"R">> \o FormatInt(band_res) \o <<"m", "/", band, ".jp2">>
    ELSE <<"/", "vsis3", "/">> \o S3_PREFIX[level] \o <<"/">>
            \o TileDayPath(DownloadTileIds(tile), dates.year, dates.month, dates.day)
            \o <<band, ".jp2">>

\* output_date_dir
OutputDateDir(output_dir, dates) == output_dir \o <<"/">> \o strftime_Ymd(dates)

\* output_fpath of a band or of the cloud mask ("CLD")
OutputPath(output_dir, level, tile, dates, name) ==
    OutputDateDir(output_dir, dates) \o <<"/", "T">> \o DownloadTileIds(tile).tile
        \o <<"_">> \o strftime_Ymd(dates) \o <<"_">> \o upper(level)
        \o <<"_", name, ".tif">>

-----------------------------------------------------------------------------
(* search_s2l2a *)

\* the answer of s3_client.get_object for one key: it raises (NoSuchKey, or a
\* transient EndpointConnectionError), or returns a body that xmltodict parses
\* (xml) into a document with root element `root` and the texts `qi` of its
\* Image_Content_QI section, or fails to parse
Response(status, xml, root, qi) == [status |-> status, xml |-> xml, root |-> root, qi |-> qi]

IsDigit(c) == \E k \in 1..10 : Digits[k] = c

DigitValue(c) == (CHOOSE k \in 1..10 : Digits[k] = c) - 1

RECURSIVE DigitsValue(_)
DigitsValue(s) ==
    IF s = <<>> THEN 0
    ELSE DigitsValue(SubSeq(s, 1, Len(s) - 1)) * 10 + DigitValue(s[Len(s)])

RECURSIVE Pow10(_)
Pow10(n) == IF n = 0 THEN 1 ELSE 10 * Pow10(n - 1)

\* float(text) for a plain decimal text: the value num/den, or a ValueError
ParseFloat(text) ==
    LET dots == {i \in 1..Len(text) : text[i] = "."}
        digs == SelectSeq(text, IsDigit)
    IN  IF Cardinality(dots) > 1 \/ digs = <<>> \/ Len(digs) + Cardinality(dots) # Len(text)
        THEN [ok |-> FALSE, num |-> 0, den |-> 1]
        ELSE [ok |-> TRUE, num |-> DigitsValue(digs),
              den |-> IF dots = {} THEN 1
                      ELSE Pow10(Len(text) - (CHOOSE i \in dots : TRUE))]

\* self.processing_level not in S3_BUCKETS, negated
ValidLevelPass(level) == TRUE

ValidLevel(level) == level \in DOMAIN S3_BUCKETS

\* cloudy <= cloud_cov and nodata <= nodata_cov
AcceptStrict(cloudy, nodata, cloud_cov, nodata_cov) ==
    cloudy.num < cloud_cov * cloudy.den /\ nodata.num < nodata_cov * nodata.den

Accept(cloudy, nodata, cloud_cov, nodata_cov) ==
    cloudy.num <= cloud_cov * cloudy.den /\ nodata.num <= nodata_cov * nodata.den

\* search_dates: date_from + timedelta(days=i) for i in range(n_days + 1)
SearchDates(date_from, date_to) ==
    LET n_days == TimedeltaDays(date_to, date_from)
    IN  [k \in 1..(n_days + 1) |-> AddDays(date_from, k - 1)]

\* one iteration of "for search_date in tqdm(search_dates)"; st.exc is set
\* when the iteration raises
SearchIteration(st, level, tile, search_date, resp, cloud_cov, nodata_cov) ==
    IF level \notin DOMAIN S3_BUCKETS
    THEN st     \* S3_BUCKETS[...] raises KeyError inside the try: continue
    ELSE
    LET st1 == [st EXCEPT !.requests =
                    Append(@, [Bucket |-> S3_BUCKETS[level],
                               Key |-> MetadataKey(tile, search_date),
                               RequestPayer |-> "requester"])]
        raise(e) == [st1 EXCEPT !.exc = e]
        has(f) == f \in DOMAIN resp.qi
        cloudy == ParseFloat(resp.qi["CLOUDY_PIXEL_PERCENTAGE"])
        nodata == IF level = l2a
                  THEN ParseFloat(resp.qi["NODATA_PIXEL_PERCENTAGE"])
                  ELSE [ok |-> TRUE, num |-> 0, den |-> 1]
    IN  IF resp.status # "OK" THEN st1                      \* except: continue
        ELSE IF ~resp.xml THEN raise("ExpatError")
        ELSE IF resp.root # XML_HEADERS[level] THEN raise("KeyError")
        ELSE IF ~has("CLOUDY_PIXEL_PERCENTAGE") THEN raise("KeyError")
        ELSE IF ~cloudy.ok THEN raise("ValueError")
        ELSE IF level = l2a /\ ~has("NODATA_PIXEL_PERCENTAGE") THEN raise("KeyError")
        ELSE IF ~nodata.ok THEN raise("ValueError")
        ELSE IF Accept(cloudy, nodata, cloud_cov, nodata_cov)
             THEN [st1 EXCEPT !.dates = Append(@, search_date)]
             ELSE st1

RECURSIVE SearchLoop(_, _, _, _, _, _, _, _)
\* the loop over search_dates from its k-th element on
SearchLoop(st, k, level, tile, search_dates, responses, cloud_cov, nodata_cov) ==
    IF k > Len(search_dates) \/ st.exc # "" THEN st
    ELSE SearchLoop(
            SearchIteration(st, level, tile, search_dates[k], responses[k],
                            cloud_cov, nodata_cov),
            k + 1, level, tile, search_dates, responses, cloud_cov, nodata_cov)

\* the body of search_s2l2a after self.processing_level is assigned:
\* what it requested, and what it returned or raised
SearchRun(level, tile, date_from, date_to, cloud_cov, nodata_cov, responses) ==
    LET st0 == [dates |-> <<>>, requests |-> <<>>, exc |-> ""]
    IN  IF ~ValidLevel(level)
        THEN [st0 EXCEPT !.exc = "ValueError"]
        ELSE SearchLoop(st0, 1, level, tile, SearchDates(date_from, date_to),
                        responses, cloud_cov, nodata_cov)

\* self.processing_level = processing_level.lower(): assigned before the check
StoredLevelIfValid(old, level) == IF level \in DOMAIN S3_BUCKETS THEN level ELSE old

StoredLevel(old, level) == level

\* the processing level a search is given is l1c or l2a in some letter case
NamesLevel(processing_level_arg) ==
    upper(processing_level_arg) \in {<<"L", "1", "C">>, <<"L", "2", "A">>}

\* S2AWSDownloader.search_s2l2a; `responses` are the object store's answers
\* to the successive get_object requests
search_s2l2a(tile, date_from, date_to, cloud_cov, nodata_cov, processing_level_arg, responses) ==
    \E level \in {lower(processing_level_arg)} :
    \E run \in {SearchRun(level, tile, date_from, date_to, cloud_cov, nodata_cov,
                          responses)} :
        /\ processing_level' = StoredLevel(processing_level, level)
        /\ last' = [op |-> "search_s2l2a",
                    args |-> [tile |-> tile, date_from |-> date_from,
                              date_to |-> date_to, cloud_cov |-> cloud_cov,
                              nodata_cov |-> nodata_cov,
                              processing_level |-> processing_level_arg],
                    env |-> responses,
                    outcome |-> IF run.exc = "" THEN "return" ELSE "raise",
                    exc |-> run.exc,
                    ret |-> IF run.exc = "" THEN run.dates ELSE <<>>,
                    requests |-> run.requests,
                    loads |-> <<>>,
                    writes |-> <<>>]
        /\ searched' = IF NamesLevel(processing_level_arg) THEN "valid" ELSE "invalid"
        /\ repeated' = FALSE
        /\ calls' = calls + 1
        /\ UNCHANGED <<files, dirs, probe>>

-----------------------------------------------------------------------------
(* download_images *)

\* (output_fpath.exists() and overwrite) or not output_fpath.exists()
NeedsFetchAlways(exists, overwrite) == TRUE

NeedsFetch(exists, overwrite) == (exists /\ overwrite) \/ ~exists

\* "Download and write image": io.load_image then io.write_image, unless the
\* file is there and is kept.  The fail_at-th load_image of the call raises
\* (fail_at = 0: none does); st.exc is set when the step raises.
FetchStep(st, im_s3_uri, output_fpath, overwrite, fail_at) ==
    IF ~NeedsFetch(output_fpath \in st.files, overwrite) THEN st
    ELSE LET st1 == [st EXCEPT !.loads = Append(@, im_s3_uri)]
         IN  IF Len(st1.loads) = fail_at
             THEN [st1 EXCEPT !.exc = "LoadError"]
             ELSE [st1 EXCEPT !.writes = Append(@, output_fpath),
                              !.files = @ \cup {output_fpath}]

\* "Download the L2 cloud mask"
CloudStep(st, level, tile, output_dir, dates, download_cloud, overwrite, fail_at) ==
    IF download_cloud /\ level = l2a
    THEN LET output_fpath == OutputPath(output_dir, level, tile, dates, "CLD")
             st1 == FetchStep(st, CloudUri(level, tile, dates), output_fpath,
                              overwrite, fail_at)
         IN  IF st1.exc # "" THEN st1
             ELSE [st1 EXCEPT !.ret = DictSet(@, "CLD", output_fpath)]
    ELSE st

\* one iteration of "for band in bands"
BandStep(st, level, tile, output_dir, dates, band, resolution, overwrite, fail_at) ==
    IF BandGroups(band) = <<>> THEN [st EXCEPT !.exc = "IndexError"]
    ELSE IF level # l2a /\ level \notin DOMAIN S3_PREFIX THEN [st EXCEPT !.exc = "KeyError"]
    ELSE LET band_res == BandRes(band, resolution)
             output_fpath == OutputPath(output_dir, level, tile, dates, band)
             st1 == FetchStep(st, BandUri(level, tile, dates, band, band_res),
                              output_fpath, overwrite, fail_at)
         IN  IF st1.exc # "" THEN st1
             ELSE [st1 EXCEPT !.ret = DictSet(@, band, output_fpath)]

RECURSIVE BandLoop(_, _, _, _, _, _, _, _, _, _)
\* the loop over bands from its k-th element on
BandLoop(st, k, level, tile, output_dir, dates, bands, resolution, overwrite, fail_at) ==
    IF k > Len(bands) \/ st.exc # "" THEN st
    ELSE BandLoop(
            BandStep(st, level, tile, output_dir, dates, bands[k], resolution,
                     overwrite, fail_at),
            k + 1, level, tile, output_dir, dates, bands, resolution, overwrite, fail_at)

\* output_dir.mkdir(exist_ok=True, parents=True)
Mkdir(st, dir) == [st EXCEPT !.dirs = @ \cup {dir}]

\* download_images for one datetime (the else branch); path_dict starts empty
DownloadDate(st, level, tile, output_dir, dates, bands, resolution, download_cloud, overwrite, fail_at) ==
    LET st1 == Mkdir(Mkdir([st EXCEPT !.ret = EmptyDict], output_dir),
                     OutputDateDir(output_dir, dates))
        st2 == CloudStep(st1, level, tile, output_dir, dates, download_cloud,
                         overwrite, fail_at)
    IN  BandLoop(st2, 1, level, tile, output_dir, dates, bands, resolution,
                 overwrite, fail_at)

\* the download_cloud and overwrite of the recursive call of download_images:
\* it passes neither, so both take their defaults
RecursiveFlags(download_cloud, overwrite) ==
    [download_cloud |-> TRUE, overwrite |-> FALSE]

RECURSIVE DatesLoop(_, _, _, _, _, _, _, _, _, _, _)
\* "for date in dates" from its k-th element on; path_dict is the mapping so far
DatesLoop(st, path_dict, k, level, tile, output_dir, dates, bands, resolution, flags, fail_at) ==
    IF k > Len(dates) \/ st.exc # "" THEN [st EXCEPT !.ret = path_dict]
    ELSE LET inner == DownloadDate(st, level, tile, output_dir, dates[k], bands,
                                   resolution, flags.download_cloud,
                                   flags.overwrite, fail_at)
         IN  DatesLoop(inner,
                       IF inner.exc = "" THEN DictSet(path_dict, strftime_Ymd(dates[k]), inner.ret)
                       ELSE path_dict,
                       k + 1, level, tile, output_dir, dates, bands, resolution,
                       flags, fail_at)

\* the whole of download_images; `dates` is [is_list, items]: a datetime is
\* the one item of a non-list
DownloadRun(st, level, tile, dates, output_dir, bands, resolution, download_cloud, overwrite, fail_at) ==
    IF dates.is_list
    THEN DatesLoop(Mkdir(st, output_dir), EmptyDict, 1, level, tile, output_dir,
                   dates.items, bands, resolution,
                   RecursiveFlags(download_cloud, overwrite), fail_at)
    ELSE DownloadDate(st, level, tile, output_dir, dates.items[1], bands, resolution,
                      download_cloud, overwrite, fail_at)

\* S2AWSDownloader.download_images
download_images(tile, dates, output_dir, bands, resolution, download_cloud, overwrite, fail_at) ==
    LET st0 == [files |-> files, dirs |-> dirs, loads |-> <<>>, writes |-> <<>>,
                ret |-> EmptyDict, exc |-> ""]
        args == [tile |-> tile, dates |-> dates, output_dir |-> output_dir,
                 bands |-> bands, resolution |-> resolution,
                 download_cloud |-> download_cloud, overwrite |-> overwrite]
    IN  \E run \in {DownloadRun(st0, processing_level, tile, dates, output_dir, bands,
                             resolution, download_cloud, overwrite, fail_at)} :
        /\ files' = run.files
        /\ dirs' = run.dirs
        /\ last' = [op |-> "download_images",
                    args |-> args,
                    env |-> <<fail_at>>,
                    outcome |-> IF run.exc = "" THEN "return" ELSE "raise",
                    exc |-> run.exc,
                    ret |-> IF run.exc = "" THEN run.ret ELSE EmptyDict,
                    requests |-> <<>>,
                    loads |-> run.loads,
                    writes |-> run.writes]
        /\ repeated' = (/\ last.op = "download_images"
                        /\ last.outcome = "return"
                        /\ last.args = args
                        /\ ~overwrite)
        /\ calls' = calls + 1
        /\ UNCHANGED <<processing_level, searched, probe>>

-----------------------------------------------------------------------------
(* Inputs *)

T35VNH == <<"T", "3", "5", "V", "N", "H">>

OutputDir == <<"out">>

Datetime(year, month, day, hour) ==
    [year |-> year, month |-> month, day |-> day, hour |-> hour]

\* the date of the end-to-end scenario, and the day after it
Day1 == Datetime(2021, 6, 15, 0)

Day2 == AddDays(Day1, 1)

\* the first day of the search window: the window runs over a year's end
Base == Datetime(2021, 12, 30, 0)

WindowDays == {AddDays(Base, i) : i \in 0..MaxSpan}

SearchTimes == {[d EXCEPT !.hour = h] : d \in WindowDays, h \in {0, 12}}

NoSuchKey == Response("NoSuchKey", FALSE, "", EmptyDict)

Transient == Response("EndpointConnectionError", FALSE, "", EmptyDict)

NotXml == Response("OK", FALSE, "", EmptyDict)

QI(cloudy, nodata) ==
    ("CLOUDY_PIXEL_PERCENTAGE" :> cloudy) @@ ("NODATA_PIXEL_PERCENTAGE" :> nodata)

L2AClear == Response("OK", TRUE, XML_HEADERS[l2a], QI(<<"0">>, <<"0", ".", "0">>))

L2ACloudy == Response("OK", TRUE, XML_HEADERS[l2a], QI(<<"0", ".", "5">>, <<"1", "0", "0">>))

L2ANoNodata == Response("OK", TRUE, XML_HEADERS[l2a],
                        "CLOUDY_PIXEL_PERCENTAGE" :> <<"0">>)

L1CDoc == Response("OK", TRUE, XML_HEADERS[l1c],
                   "CLOUDY_PIXEL_PERCENTAGE" :> <<"0", ".", "5">>)

Responses == {NoSuchKey, Transient, NotXml, L2AClear, L2ACloudy, L2ANoNodata, L1CDoc}

LevelArgs == {<<"l", "2", "a">>, <<"L", "1", "C">>, <<"l", "3">>}

Thresholds == {0, 100}

DatesArgs == {[is_list |-> FALSE, items |-> <<Day1>>],
              [is_list |-> TRUE, items |-> <<>>],
              [is_list |-> TRUE, items |-> <<Day1>>],
              [is_list |-> TRUE, items |-> <<Day1, Day2>>]}

BandsArgs == {<<>>, <<"B8A">>, <<"B02", "B8A">>}

\* the resolution example.py asks for
ResolutionArgs == {<<60>>}

FailAts == {0, 2}

KeyTiles == {T35VNH, SliceFrom(T35VNH, 1), <<"T", "0", "5", "A", "B", "C">>,
             <<"T", "T", "A", "B">>, <<"T", "5">>, <<>>}

KeyDates == WindowDays \cup {Day1}

KeyResolutions == {<<>>, <<0>>, <<5>>, <<10>>, <<20>>, <<60>>}

NoProbe == [op |-> "none"]

-----------------------------------------------------------------------------
(* The downloader *)

\* S2AWSDownloader.__init__: the placeholders, and an untouched output tree
Constructed ==
    /\ processing_level = None
    /\ files = {}
    /\ dirs = {}
    /\ last = [op |-> "__init__", args |-> <<>>, env |-> <<>>, outcome |-> "return",
               exc |-> "", ret |-> <<>>, requests |-> <<>>, loads |-> <<>>,
               writes |-> <<>>]
    /\ searched = "never"
    /\ repeated = FALSE
    /\ calls = 0

Init == Constructed /\ probe = NoProbe

SearchCall ==
    /\ calls < MaxCalls
    /\ \E lv \in LevelArgs, r \in {NoSuchKey, L2AClear} :
           search_s2l2a(T35VNH, Day1, Day1, 100, 100, lv, <<r>>)

DownloadCall ==
    /\ calls < MaxCalls
    /\ \E dates \in DatesArgs, bands \in BandsArgs, resolution \in ResolutionArgs,
          download_cloud \in BOOLEAN, overwrite \in BOOLEAN, fail_at \in FailAts :
           download_images(T35VNH, dates, OutputDir, bands, resolution,
                           download_cloud, overwrite, fail_at)

Next == SearchCall \/ DownloadCall

Spec == Init /\ [][Next]_vars

\* one search on a fresh downloader, its arguments and the object store's
\* answers drawn at the start
InitSearch ==
    /\ Constructed
    /\ \E f \in SearchTimes, t \in SearchTimes, c \in Thresholds, n \in Thresholds,
          lv \in LevelArgs :
        \E r \in [1..Len(SearchDates(f, t)) -> Responses] :
            probe = [op |-> "search_s2l2a", tile |-> T35VNH, date_from |-> f,
                     date_to |-> t, cloud_cov |-> c, nodata_cov |-> n,
                     processing_level |-> lv, responses |-> r]

SearchProbe ==
    /\ last.op = "__init__"
    /\ search_s2l2a(probe.tile, probe.date_from, probe.date_to, probe.cloud_cov,
                    probe.nodata_cov, probe.processing_level, probe.responses)

NextSearch == SearchProbe

SpecSearch == InitSearch /\ [][NextSearch]_vars

\* the keys and paths the two operations build for one tile, date, band,
\* level and resolution
Resolve(tile, dates, band, level, resolution) ==
    [metadata_key |-> MetadataKey(tile, dates),
     cloud_uri |-> IF level = l2a THEN CloudUri(level, tile, dates) ELSE <<>>,
     band_res |-> BandRes(band, resolution),
     band_uri |-> BandUri(level, tile, dates, band, BandRes(band, resolution)),
     search_ids |-> SearchTileIds(tile),
     download_ids |-> DownloadTileIds(tile)]

InitKey ==
    /\ Constructed
    /\ \E tile \in KeyTiles, dates \in KeyDates, k \in 1..Len(S2_BANDS),
          level \in {l1c, l2a}, resolution \in KeyResolutions :
        probe = [op |-> "resolve", tile |-> tile, dates |-> dates,
                 band |-> S2_BANDS[k], level |-> level, resolution |-> resolution]

ResolveProbe ==
    /\ last.op = "__init__"
    /\ last' = [last EXCEPT !.op = "resolve",
                            !.ret = Resolve(probe.tile, probe.dates, probe.band,
                                            probe.level, probe.resolution)]
    /\ UNCHANGED <<processing_level, files, dirs, searched, repeated, calls, probe>>

NextKey == ResolveProbe

SpecKey == InitKey /\ [][NextKey]_vars

-----------------------------------------------------------------------------
(* Properties of search_s2l2a, checked under SpecSearch *)

Range(s) == {s[i] : i \in DOMAIN s}

IsSearch == last.op = "search_s2l2a"

\* the days the latest search had to examine, and the answers it was given
SearchedDates == SearchDates(last.args.date_from, last.args.date_to)

\* the k-th answer carries a document (get_object returned)
Retrieved(k) == last.env[k].status = "OK"

\* the percentage the k-th answer's document gives for a field, as num/den
Percentage(k, field) == ParseFloat(last.env[k].qi[field])

\* the k-th document's percentages are within the search's thresholds
WithinThresholds(k) ==
    /\ Percentage(k, "CLOUDY_PIXEL_PERCENTAGE").num
          <= last.args.cloud_cov * Percentage(k, "CLOUDY_PIXEL_PERCENTAGE").den
    /\ \/ processing_level = l1c
       \/ Percentage(k, "NODATA_PIXEL_PERCENTAGE").num
             <= last.args.nodata_cov * Percentage(k, "NODATA_PIXEL_PERCENTAGE").den

\* both percentages of the k-th document are exactly 0 (nodata is 0 for L1C)
BothZero(k) ==
    /\ Percentage(k, "CLOUDY_PIXEL_PERCENTAGE").num = 0
    /\ \/ processing_level = l1c
       \/ Percentage(k, "NODATA_PIXEL_PERCENTAGE").num = 0

\* C4: a search with a valid level never raises, whatever way a day's
\* metadata is unavailable (object missing, transient error, malformed or
\* incomplete document): it requests every day of the range and leaves the
\* unavailable days out of its result.
C4_UnavailableIsSkipped ==
    (IsSearch /\ processing_level \in DOMAIN S3_BUCKETS) =>
        /\ last.outcome = "return"
        /\ Len(last.requests) = Len(SearchedDates)
        /\ \A k \in 1..Len(SearchedDates) :
              (~Retrieved(k) \/ ~last.env[k].xml
                  \/ last.env[k].root # XML_HEADERS[processing_level]
                  \/ (processing_level = l2a
                        /\ "NODATA_PIXEL_PERCENTAGE" \notin DOMAIN last.env[k].qi))
                => SearchedDates[k] \notin Range(last.ret)

\* C5: a search that returns, returns a day of its range if and only if the
\* day's document was retrieved and cloudy <= cloud_cov and nodata <=
\* nodata_cov (nodata is 0 for L1C); so thresholds of 100 accept every
\* retrieved day and thresholds of 0 accept only days with both percentages 0.
C5_AcceptedIffWithinThresholds ==
    (IsSearch /\ last.outcome = "return") =>
        \A k \in 1..Len(SearchedDates) :
            /\ SearchedDates[k] \in Range(last.ret)
                  <=> (Retrieved(k) /\ WithinThresholds(k))
            /\ (last.args.cloud_cov = 100 /\ last.args.nodata_cov = 100 /\ Retrieved(k))
                  => SearchedDates[k] \in Range(last.ret)
            /\ (last.args.cloud_cov = 0 /\ last.args.nodata_cov = 0
                    /\ SearchedDates[k] \in Range(last.ret))
                  => BothZero(k)

\* a search returned one day, was refused another by a threshold and skipped
\* a third whose metadata was missing
C5_Witness ==
    /\ IsSearch /\ last.outcome = "return"
    /\ last.ret # <<>>
    /\ \E k \in 1..Len(SearchedDates) :
          Retrieved(k) /\ SearchedDates[k] \notin Range(last.ret)
    /\ \E k \in 1..Len(SearchedDates) : ~Retrieved(k)

\* the calendar day of a datetime
DayOf(dt) == [dt EXCEPT !.hour = 0]

\* every calendar day from the day of a through the day of b, ascending
CalendarDays(a, b) ==
    [k \in 1..(ToOrdinal(b) - ToOrdinal(a) + 1) |-> AddDays(DayOf(a), k - 1)]

\* C6: for date_from <= date_to a search that returns has requested the
\* metadata of every calendar day from the day of date_from through the day
\* of date_to, each once and in ascending order, and its result is strictly
\* ascending and holds only days of that range.
C6_EveryCalendarDayExamined ==
    (IsSearch /\ last.outcome = "return"
        /\ DatetimeLeq(last.args.date_from, last.args.date_to)) =>
        LET days == CalendarDays(last.args.date_from, last.args.date_to)
        IN  /\ Len(last.requests) = Len(days)
            /\ \A k \in 1..Len(days) :
                  last.requests[k].Key = MetadataKey(last.args.tile, days[k])
            /\ \A k \in 1..Len(last.ret) : DayOf(last.ret[k]) \in Range(days)
            /\ \A j, k \in 1..Len(last.ret) :
                  j < k => ToOrdinal(last.ret[j]) < ToOrdinal(last.ret[k])

\* C7: a search whose processing level is, in any letter case, neither l1c
\* nor l2a raises ValueError and has issued no get_object request.
C7_InvalidLevelRaisesBeforeRequests ==
    (IsSearch /\ ~NamesLevel(last.args.processing_level)) =>
        /\ last.outcome = "raise"
        /\ last.exc = "ValueError"
        /\ last.requests = <<>>

\* a search over three days was given the level "l3" and rejected
C7_Witness ==
    /\ IsSearch
    /\ last.args.processing_level = <<"l", "3">>
    /\ Len(SearchedDates) = 3
    /\ last.outcome = "raise"
    /\ last.requests = <<>>

-----------------------------------------------------------------------------
(* Properties of the keys and paths, checked under SpecKey *)

IsResolve == last.op = "resolve"

RECURSIVE Split(_)
\* the segments of a key or path between its "/" atoms
Split(s) ==
    IF \A i \in 1..Len(s) : s[i] # "/" THEN <<s>>
    ELSE LET i == CHOOSE j \in 1..Len(s) :
                      s[j] = "/" /\ \A h \in 1..(j - 1) : s[h] # "/"
         IN  <<SubSeq(s, 1, i - 1)>> \o Split(SubSeq(s, i + 1, Len(s)))

\* the segment writes the number n in decimal with no leading zero
Unpadded(seg, n) ==
    /\ seg # <<>>
    /\ \A i \in 1..Len(seg) : IsDigit(seg[i])
    /\ DigitsValue(seg) = n
    /\ Len(seg) > 1 => seg[1] # "0"

\* the tile id without one leading "T"
Stripped(tile) == IF tile # <<>> /\ tile[1] = "T" THEN Tail(tile) ELSE tile

\* segs is tiles/{p1}/{p2}/{p3}/{year}/{month}/{day}/0 and a leaf after it
IsTileDayKey(segs, tile, dt) ==
    /\ Len(segs) > 8
    /\ segs[1] = <<"tiles">>
    /\ segs[2] \o segs[3] \o segs[4] = Stripped(tile)
    /\ Len(segs[2]) = Min(2, Len(Stripped(tile)))
    /\ Len(segs[3]) = Min(1, Len(Stripped(tile)) - Len(segs[2]))
    /\ Unpadded(segs[5], dt.year)
    /\ Unpadded(segs[6], dt.month)
    /\ Unpadded(segs[7], dt.day)
    /\ segs[8] = <<"0">>

\* what follows the eight segments of the tile and the day
Leaf(segs) == SubSeq(segs, 9, Len(segs))

\* the leaf is R{resolution}m/{band}.jp2
IsResolutionLeaf(leaf, resolution, band) ==
    /\ Len(leaf) = 2
    /\ Len(leaf[1]) > 2
    /\ leaf[1][1] = "R"
    /\ leaf[1][Len(leaf[1])] = "m"
    /\ Unpadded(SubSeq(leaf[1], 2, Len(leaf[1]) - 1), resolution)
    /\ leaf[2] = <<band, ".jp2">>

\* the segments of a /vsis3 path after /vsis3/{bucket}
AfterBucket(uri) == SubSeq(Split(uri), 4, Len(Split(uri)))

\* the native resolution of a band: the key of the group that lists it
Native(band) ==
    CHOOSE r \in {10, 20, 60} :
        \E g \in 1..Len(BAND_RES) : BAND_RES[g].key = r /\ band \in Range(BAND_RES[g].bands)

\* the number in the R{..}m segment of an L2A band path
PathResolution(uri) ==
    LET seg == AfterBucket(uri)[9]
    IN  DigitsValue(SubSeq(seg, 2, Len(seg) - 1))

\* C8: every band of S2_BANDS is in exactly one of the groups 10, 20, 60, and
\* the resolution in an L2A band's path is the native one when no override
\* is given and max(override, native) when one is, so never finer than native
\* (a 10 m band: no override 10, override 20 gives 20, override 5 gives 10).
C8_EffectiveResolution ==
    /\ \A b \in Range(S2_BANDS) :
          /\ Cardinality({g \in 1..Len(BAND_RES) : b \in Range(BAND_RES[g].bands)}) = 1
          /\ \A g \in 1..Len(BAND_RES) : BAND_RES[g].key \in {10, 20, 60}
    /\ (IsResolve /\ probe.level = l2a) =>
          /\ probe.resolution = <<>> => PathResolution(last.ret.band_uri) = Native(probe.band)
          /\ probe.resolution # <<>> =>
                PathResolution(last.ret.band_uri) = Max(probe.resolution[1], Native(probe.band))
          /\ PathResolution(last.ret.band_uri) >= Native(probe.band)
          /\ (probe.band = "B02" /\ probe.resolution = <<>>) =>
                PathResolution(last.ret.band_uri) = 10
          /\ (probe.band = "B02" /\ probe.resolution = <<20>>) =>
                PathResolution(last.ret.band_uri) = 20
          /\ (probe.band = "B02" /\ probe.resolution = <<5>>) =>
                PathResolution(last.ret.band_uri) = 10

\* the path of the 10 m band B02 was resolved with an override of 5
C8_Witness ==
    /\ IsResolve
    /\ probe.level = l2a
    /\ probe.band = "B02"
    /\ probe.resolution = <<5>>
    /\ PathResolution(last.ret.band_uri) = 10

\* C9: for every tile id, date and band the key is
\* tiles/{p1}/{p2}/{p3}/{year}/{month}/{day}/0/<leaf>: p1, p2, p3 are the
\* first two characters, the next one and the rest of the T-stripped id,
\* month and day carry no zero padding, the leaf is metadata.xml,
\* qi/CLD_20m.jp2, R{resolution}m/{band}.jp2 (L2A) or {band}.jp2 (L1C), and
\* search and download take the tile id apart alike.
C9_KeyLayout ==
    IsResolve =>
        /\ IsTileDayKey(Split(last.ret.metadata_key), probe.tile, probe.dates)
        /\ Leaf(Split(last.ret.metadata_key)) = <<<<"metadata.xml">>>>
        /\ probe.level = l2a =>
              /\ IsTileDayKey(AfterBucket(last.ret.cloud_uri), probe.tile, probe.dates)
              /\ Leaf(AfterBucket(last.ret.cloud_uri)) = <<<<"qi">>, <<"CLD_20m.jp2">>>>
              /\ IsTileDayKey(AfterBucket(last.ret.band_uri), probe.tile, probe.dates)
              /\ IsResolutionLeaf(Leaf(AfterBucket(last.ret.band_uri)),
                                  last.ret.band_res, probe.band)
        /\ probe.level = l1c =>
              /\ IsTileDayKey(AfterBucket(last.ret.band_uri), probe.tile, probe.dates)
              /\ Leaf(AfterBucket(last.ret.band_uri)) = <<<<probe.band, ".jp2">>>>
        /\ last.ret.search_ids = last.ret.download_ids

\* the end-to-end scenario: T35VNH, 2021-06-15, L2A, B8A, resolution 60
C9_Witness ==
    /\ IsResolve
    /\ probe.tile = T35VNH /\ probe.dates = Day1 /\ probe.level = l2a
    /\ probe.band = "B8A" /\ probe.resolution = <<60>>
    /\ last.ret.band_uri =
          <<"/", "vsis3", "/", "sentinel-s2-l2a", "/", "tiles", "/", "3", "5", "/",
            "V", "/", "N", "H", "/", "2", "0", "2", "1", "/", "6", "/", "1", "5",
            "/", "0", "/", "R", "6", "0", "m", "/", "B8A", ".jp2">>
    /\ last.ret.metadata_key =
          <<"tiles", "/", "3", "5", "/", "V", "/", "N", "H", "/", "2", "0", "2", "1",
            "/", "6", "/", "1", "5", "/", "0", "/", "metadata.xml">>

-----------------------------------------------------------------------------
(* Properties of download_images, checked under Spec *)

IsDownload == last.op = "download_images"

\* the mapping of each date of the latest download: the whole result for a
\* single date, its values for a list of dates
PerDateResults ==
    IF last.args.dates.is_list THEN {last.ret[k] : k \in DOMAIN last.ret}
    ELSE {last.ret}

IsCloudPath(path) == path # <<>> /\ path[Len(path)] = "CLD_20m.jp2"

IsCloudFile(path) == \E i \in 1..Len(path) : path[i] = "CLD"

\* C1: a download with overwrite=True that returns has loaded and written
\* the raster of every requested (date, band) pair, for a single date and
\* for a list of dates, whether or not the file was there before.
C1_OverwriteFetchesEveryPair ==
    (IsDownload /\ last.args.overwrite /\ last.outcome = "return") =>
        \A d \in Range(last.args.dates.items), b \in Range(last.args.bands) :
            /\ OutputPath(last.args.output_dir, processing_level, last.args.tile, d, b)
                  \in Range(last.writes)
            /\ BandUri(processing_level, last.args.tile, d, b,
                       BandRes(b, last.args.resolution)) \in Range(last.loads)

\* C2: when a download that returned with overwrite=False is followed at once
\* by a download with the same arguments, the second loads and writes
\* nothing, leaves the output files as they are and returns the same mapping.
C2_RepeatFetchesNothing ==
    [][(/\ IsDownload
        /\ last.outcome = "return"
        /\ ~last.args.overwrite
        /\ last'.op = "download_images"
        /\ last'.args = last.args)
          => (/\ last'.loads = <<>>
              /\ last'.writes = <<>>
              /\ files' = files
              /\ last'.outcome = "return"
              /\ last'.ret = last.ret)]_vars

\* a download of two dates, two bands and the cloud mask was repeated
C2_Witness ==
    /\ IsDownload
    /\ repeated
    /\ processing_level = l2a
    /\ Len(last.args.dates.items) = 2
    /\ Len(last.args.bands) = 2
    /\ last.outcome = "return"
    /\ last.loads = <<>>
    /\ Cardinality(files) = 6

\* C3: a download with download_cloud=False, for a single date and for a
\* list of dates, loads and writes no cloud mask and has no "CLD" key in any
\* per-date mapping.
C3_NoCloudWhenNotAsked ==
    (IsDownload /\ ~last.args.download_cloud) =>
        /\ \A u \in Range(last.loads) : ~IsCloudPath(u)
        /\ \A f \in Range(last.writes) : ~IsCloudFile(f)
        /\ \A m \in PerDateResults : "CLD" \notin DOMAIN m

\* the latest download loaded or wrote a raster
Fetched == last.loads # <<>> \/ last.writes # <<>>

\* the latest download had at least one (date, band) pair to process
HasPair == last.args.dates.items # <<>> /\ last.args.bands # <<>>

====
